---- MODULE Spec2Model ----
(***************************************************************************)
(* The per-partition consumer of pulsar-client-go:                         *)
(*   pulsar/impl_partition_consumer.go  and  pulsar/impl_message.go        *)
(*                                                                         *)
(* Threads of the model: the caller threads of the public operations, the  *)
(* event-loop goroutine (runEventsLoop), the connection layer's dispatch   *)
(* thread (HandlerMessage, ConnectionClosed) and the user's receivers.     *)
(***************************************************************************)
EXTENDS Integers, Sequences, FiniteSets, TLC

(***************************************************************************)
(* Bounds of the model.                                                    *)
(***************************************************************************)
NumCallers == 2        \* caller threads: public operations in progress at once
MaxOps == 3            \* public operations started, over all callers
MaxPush == 3           \* HandlerMessage calls made by the connection layer
MaxQueue == 2          \* largest ReceiverQueueSize drawn in Init
MaxConnClosed == 1     \* ConnectionClosed callbacks
MaxFlowQueue == 4      \* largest ReceiverQueueSize of a run with ReceiveAsync
MaxFlowPush == 5       \* HandlerMessage calls of a run with ReceiveAsync
MaxGrab == 3           \* grabCnx calls of a run with reconnectToBroker
MaxOthers == 1         \* constructions of other partition consumers
MaxChunks == 2         \* full REDELIVER commands of the largest overflow list
MaxTime == 10          \* clock readings of a run of the tracker's timer
TimeoutTicks == 4      \* AckTimeout of that run, in clock ticks

(***************************************************************************)
(* Program constants.                                                      *)
(***************************************************************************)
maxRedeliverUnacknowledged == 1000
eventsChanCap == 10
defaultReceiverQueueSize == 1000

consumerInit == 0
consumerReady == 1
consumerClosing == 2
consumerClosed == 3

VARIABLES
    state,          \* pc.state
    cnx,            \* pc.cnx: 0 is nil, n the n-th connection handed out
    options,        \* pc.options after setDefault
    consumerID,     \* pc.consumerID
    partitionIdx,   \* pc.partitionIdx
    omu,            \* holder of pc.omu: "free", "loop" or "handler"
    overflow,       \* pc.overflow
    unAckTracker,   \* pc.unAckTracker: NoTracker or [ids, running]
    eventsChan,     \* pc.eventsChan: handle indices, 0 for &connectionClosed{}
    msgChan,        \* pc.options.MessageChannel
    handlerReg,     \* the connection's consume handler for consumerID is pc
    nextRequestId,  \* rpcClient's request-id counter
    wire,           \* commands handed to the rpc client, in order
    ctor,           \* newPartitionConsumer: "setDefault", "subType", "switchType",
                    \*   "switchInitPos" (before the statement that writes),
                    \*   "running" (in Lookup), "subscribeWait", "failed",
                    \*   "returned"
    loopPc,         \* runEventsLoop: "notStarted", "idle", "seekWait",
                    \*   "ackCumulativeWait", "unsubscribeWait", "closeWait",
                    \*   "redeliverWait", "done"
    loopCur,        \* handle the loop is working on, 0 if none
    loopI,          \* internalRedeliver's loop variable i
    loopReqId,      \* internalRedeliver's requestID
    handles,        \* the calls of the public operations, each with the
                    \*   handle* object it made and where its caller stands
    hm,             \* HandlerMessage on the dispatch thread
    hist,           \* history: what the connection layer and receivers did
    ra,             \* the ReceiveAsync call
    rc,             \* the reconnectToBroker call: "idle", "running" (top of
                    \*   its loop), "lookup", "subscribeWait"
    tk,             \* the UnackedMessageTracker's buckets and clock
    env,            \* what the application and the broker do in this run
    subType,        \* the package-level variable subType
    position,       \* the package-level variable position
    other           \* newPartitionConsumer running for another consumer

vars == <<state, cnx, options, consumerID, partitionIdx, omu, overflow,
          unAckTracker, eventsChan, msgChan, handlerReg, nextRequestId, wire,
          ctor, loopPc, loopCur, loopI, loopReqId, handles, hm, hist, ra, rc,
          tk, env, subType, position, other>>

nil == "nil"
ReqErr == "request failed"

Min(a, b) == IF a < b THEN a ELSE b
Max(a, b) == IF a > b THEN a ELSE b

(***************************************************************************)
(* pb.MessageIdData as the broker sends it in CommandMessage.              *)
(***************************************************************************)
BrokerIds ==
    { [ledgerId |-> 7, entryId |-> 1, partition |-> -1, batchIndex |-> -1],
      [ledgerId |-> 7, entryId |-> 2, partition |-> -1, batchIndex |-> -1],
      [ledgerId |-> 7, entryId |-> 2, partition |-> -1, batchIndex |-> 0] }

FirstId == [ledgerId |-> 7, entryId |-> 1, partition |-> -1, batchIndex |-> -1]

(***************************************************************************)
(* impl_message.go                                                         *)
(***************************************************************************)
newMessageId(ledgerID, entryID, batchIdx, partIdx) ==
    [ledgerID |-> ledgerID, entryID |-> entryID,
     batchIdx |-> batchIdx, partitionIdx |-> partIdx]

\* messageId.Serialize, read back by proto.Unmarshal: the pb.MessageIdData that
\* the bytes carry (values of the model stay inside the fields' widths).
Serialize(id) ==
    [ledgerId |-> id.ledgerID, entryId |-> id.entryID,
     partition |-> id.partitionIdx, batchIndex |-> id.batchIdx]

\* proto.Equal on two pb.MessageIdData: field by field.
protoEqual(a, b) ==
    /\ a.ledgerId = b.ledgerId
    /\ a.entryId = b.entryId
    /\ a.partition = b.partition
    /\ a.batchIndex = b.batchIndex

(***************************************************************************)
(* Collaborators: the rpc client and the connection (internal package).    *)
(***************************************************************************)
\* rpcClient.NewRequestId: the next value of a counter.
NewRequestId(rid) == rid + 1

\* What a request can come back with.
RequestOutcomes == {nil, ReqErr}

Cmd(type, requestId, arg) ==
    [type |-> type, consumerId |-> consumerID, requestId |-> requestId, arg |-> arg]

(***************************************************************************)
(* UnackedMessageTracker, as far as the consumer uses it.                  *)
(***************************************************************************)
\* pc.unAckTracker == nil
NoTracker == [present |-> FALSE, ids |-> {}, running |-> FALSE]

NewUnackedMessageTracker == [present |-> TRUE, ids |-> {}, running |-> FALSE]

trackerStart(t) == [t EXCEPT !.running = TRUE]

trackerStop(t) == [t EXCEPT !.running = FALSE]

trackerAdd(t, id) == [t EXCEPT !.ids = @ \cup {id}]

trackerRemove(t, id) == [t EXCEPT !.ids = @ \ {id}]

trackerClear(t) == [t EXCEPT !.ids = {}]

(***************************************************************************)
(* newPartitionConsumer up to the call of grabCnx.                         *)
(***************************************************************************)
SubscriptionTypes == {"Exclusive", "Shared"}

RawOptions(maxQueue) ==
    [Type : SubscriptionTypes,
     ReceiverQueueSize : 1..maxQueue,
     SubscriptionName : {"sub"},
     SubscriptionInitPos : {"Earliest"},
     AckTimeout : {0}]

\* switch options.Type { case Exclusive: subType = ... }: the value of the
\* package-level subType after the switch, cur being its value before.
switchType(type, cur) ==
    CASE type = "Exclusive" -> "CommandSubscribe_Exclusive"
      [] type = "Failover" -> "CommandSubscribe_Failover"
      [] type = "Shared" -> "CommandSubscribe_Shared"
      [] type = "KeyShared" -> "CommandSubscribe_Key_Shared"
      [] OTHER -> cur

\* switch options.SubscriptionInitPos { case Latest: position = ... }
switchInitPos(initPos, cur) ==
    CASE initPos = "Latest" -> "CommandSubscribe_Latest"
      [] initPos = "Earliest" -> "CommandSubscribe_Earliest"
      [] OTHER -> cur

\* what setDefault leaves in subType and position
setDefaultSubType == "CommandSubscribe_Exclusive"
setDefaultPosition == "CommandSubscribe_Latest"

\* no other consumer is being constructed
NoOther == [pc |-> "idle", Type |-> "none", SubscriptionInitPos |-> "none", n |-> 0]

setDefault(o) ==
    [o EXCEPT !.ReceiverQueueSize = IF @ <= 0 THEN defaultReceiverQueueSize ELSE @,
              !.AckTimeout = IF @ = 0 THEN 30 ELSE @]

\* cap(pc.options.MessageChannel): the channel newPartitionConsumer makes.
chanCap == options.ReceiverQueueSize

\* What the application and the broker do in a run: the kinds of public
\* operation called and how many calls, the number of pushes and of
\* ConnectionClosed callbacks.  A run is either one of the application
\* working the whole interface while a message or two come in, or one of the
\* broker pushing into a queue that fills while the application receives,
\* flushes the overflow and closes.
AllKinds == {"handleUnsubscribe", "handleAck", "handleAckCumulative", "handleSeek",
             "handleRedeliver", "handlerClose"}

Environments ==
    { [kinds |-> AllKinds, ops |-> MaxOps - 1, pushes |-> MaxPush - 2,
       connClosed |-> MaxConnClosed, queue |-> MaxQueue, ids |-> BrokerIds,
       async |-> FALSE],
      [kinds |-> {"handlerClose", "handleSeek"}, ops |-> MaxOps, pushes |-> 0,
       connClosed |-> MaxConnClosed, queue |-> MaxQueue, ids |-> BrokerIds,
       async |-> FALSE],
      [kinds |-> {"handleRedeliver", "handlerClose"}, ops |-> MaxOps - 1,
       pushes |-> MaxPush, connClosed |-> 0, queue |-> MaxQueue, ids |-> BrokerIds,
       async |-> FALSE],
      [kinds |-> {}, ops |-> 0, pushes |-> MaxFlowPush, connClosed |-> 0,
       queue |-> MaxFlowQueue, ids |-> {FirstId}, async |-> TRUE] }

\* no pb.MessageIdData, no messageId
NoMid == [ledgerId |-> -9, entryId |-> -9, partition |-> -9, batchIndex |-> -9]
NoMsgID == [ledgerID |-> -9, entryID |-> -9, batchIdx |-> -9, partitionIdx |-> -9]

\* HandlerMessage is not running
NoHm == [pc |-> "idle", newMid |-> NoMid]

\* History of the run: the ids HandlerMessage was called with and parsed,
\* the number of its calls, of messages received, of overflow flushes, of
\* ConnectionClosed callbacks, of connectionClosed events the loop took, of
\* grabCnx calls, what HandlerMessage returned last, the error of the
\* Receive call that returned one, what the last grabCnx met (lookup and
\* the response to SUBSCRIBE) and the number of AddConsumeHandler calls.
InitHist == [pushed |-> <<>>, pushes |-> 0, received |-> 0, redelivers |-> 0,
             connClosed |-> 0, ccTaken |-> 0, grabCnxCalls |-> 0,
             hmRet |-> "none", rcvRet |-> "none",
             grabOutcome |-> "none", handlerAdds |-> 0]

NoReceiveAsync == [pc |-> "idle", highwater |-> 0, receivedSinceFlow |-> 0,
                   tmpMsg |-> NoMsgID, forwarded |-> 0, permits |-> 0,
                   flows |-> <<>>]

NoTicks == [current |-> {}, old |-> {}, now |-> 0, ticked |-> TRUE,
            addedAt |-> [id \in BrokerIds |-> -1], batches |-> {}]

\* the fields of the struct literal and what setDefault leaves in the options
InitStruct(envs) ==
    /\ env \in envs
    /\ state = consumerInit
    /\ cnx = 0
    /\ options \in {setDefault(o) : o \in RawOptions(env.queue)}
    /\ consumerID = 5
    /\ partitionIdx = 2
    /\ omu = "free"
    /\ overflow = <<>>
    /\ eventsChan = <<>>
    /\ msgChan = <<>>
    /\ handlerReg = FALSE
    /\ nextRequestId = 0
    /\ wire = <<>>
    /\ loopPc = "notStarted"
    /\ loopCur = 0
    /\ loopI = 0
    /\ loopReqId = 0
    /\ handles = <<>>
    /\ hm = NoHm
    /\ hist = InitHist
    /\ ra = NoReceiveAsync
    /\ rc = "idle"
    /\ tk = NoTicks
    /\ other = NoOther

\* the tracker of a Shared or KeyShared consumer with an AckTimeout, started
newTracker ==
    IF options.Type \in {"Shared", "KeyShared"} /\ options.AckTimeout # 0
    THEN trackerStart(NewUnackedMessageTracker)
    ELSE NoTracker

\* the construction at its call of grabCnx, no other construction having run
\* beside it
InitWith(envs) ==
    /\ InitStruct(envs)
    /\ unAckTracker = newTracker
    /\ ctor = "running"
    /\ subType = switchType(options.Type, setDefaultSubType)
    /\ position = switchInitPos(options.SubscriptionInitPos, setDefaultPosition)

Init == InitWith(Environments)

(***************************************************************************)
(* internalFlow and grabCnx.  Both give back the error they return        *)
(* together with what they leave behind.  grabCnx waits twice, in Lookup   *)
(* and for the response to its SUBSCRIBE request: it is two steps, up to   *)
(* the request (grabCnxRequest) and from its return on (grabCnxResponse).  *)
(***************************************************************************)
\* flowOutcome is what RequestOnCnxNoWait returns for the FLOW command.
internalFlow(permits, flowOutcome, w, rid) ==
    IF permits <= 0
    THEN [err |-> "invalid number of permits", wire |-> w, rid |-> rid]
    ELSE IF flowOutcome # nil
    THEN [err |-> flowOutcome, wire |-> w, rid |-> NewRequestId(rid)]
    ELSE [err |-> nil, rid |-> NewRequestId(rid),
          wire |-> Append(w, Cmd("FLOW", NewRequestId(rid), permits))]

\* what Lookup returns; what the SUBSCRIBE request and the FLOW request come
\* to; what a call of grabCnx met, "pending" while it waits for the response
LookupOutcomes == {nil, "lookup failed"}
ResponseOutcomes == {"requestErr", "ERROR", "other", "flowErr", "ok"}
GrabOutcomes == {"lookupErr"} \cup ResponseOutcomes

\* SubscribeCmd as it would be if every handshake took a consumer id of its own.
SubscribeCmd_NewConsumerId(requestID) ==
    [type |-> "SUBSCRIBE", consumerId |-> consumerID + hist.grabCnxCalls,
     requestId |-> requestID,
     arg |-> [subscription |-> options.SubscriptionName, subType |-> subType,
              initialPosition |-> position]]

SubscribeCmd(requestID) ==
    Cmd("SUBSCRIBE", requestID,
        [subscription |-> options.SubscriptionName, subType |-> subType,
         initialPosition |-> position])

\* grabCnx up to the SUBSCRIBE request: Lookup has returned lookupOutcome;
\* the command is built from subType and position as they are then.
grabCnxRequest(lookupOutcome) ==
    LET requestID == NewRequestId(nextRequestId)
    IN  IF lookupOutcome # nil
        THEN [err |-> lookupOutcome, wire |-> wire, rid |-> nextRequestId]
        ELSE [err |-> nil, wire |-> Append(wire, SubscribeCmd(requestID)),
              rid |-> requestID]

\* grabCnxResponse as it would be if it registered the handler as soon as the
\* request returned a response, before it looked at the type of the response.
grabCnxResponse_RegistersBeforeResponse(outcome) ==
    LET flow == internalFlow(options.ReceiverQueueSize,
                             IF outcome = "flowErr" THEN ReqErr ELSE nil,
                             wire, nextRequestId)
    IN  CASE outcome = "requestErr" ->
               [err |-> ReqErr, wire |-> wire, rid |-> nextRequestId,
                cnx |-> cnx, handlerReg |-> handlerReg, added |-> FALSE]
          [] outcome = "ERROR" ->
               [err |-> "broker error", wire |-> wire, rid |-> nextRequestId,
                cnx |-> cnx + 1, handlerReg |-> TRUE, added |-> TRUE]
          [] outcome = "other" ->
               [err |-> "unexpected response", wire |-> wire, rid |-> nextRequestId,
                cnx |-> cnx + 1, handlerReg |-> TRUE, added |-> TRUE]
          [] OTHER ->
               [err |-> flow.err, wire |-> flow.wire, rid |-> flow.rid,
                cnx |-> cnx + 1, handlerReg |-> TRUE, added |-> TRUE]

\* grabCnx from the return of the SUBSCRIBE request on.  outcome: what the
\* request and, after a SUCCESS, the FLOW request come to.
\* added: pc.cnx.AddConsumeHandler was called.
grabCnxResponse(outcome) ==
    LET flow == internalFlow(options.ReceiverQueueSize,
                             IF outcome = "flowErr" THEN ReqErr ELSE nil,
                             wire, nextRequestId)
    IN  CASE outcome = "requestErr" ->
               [err |-> ReqErr, wire |-> wire, rid |-> nextRequestId,
                cnx |-> cnx, handlerReg |-> handlerReg, added |-> FALSE]
          [] outcome = "ERROR" ->
               [err |-> "broker error", wire |-> wire, rid |-> nextRequestId,
                cnx |-> cnx + 1, handlerReg |-> handlerReg, added |-> FALSE]
          [] outcome = "other" ->
               [err |-> "unexpected response", wire |-> wire, rid |-> nextRequestId,
                cnx |-> cnx + 1, handlerReg |-> handlerReg, added |-> FALSE]
          [] OTHER ->
               [err |-> flow.err, wire |-> flow.wire, rid |-> flow.rid,
                cnx |-> cnx + 1, handlerReg |-> TRUE, added |-> TRUE]

\* newPartitionConsumer from the call of grabCnx to its SUBSCRIBE request
newPartitionConsumerRequest(lookupOutcome) ==
    /\ ctor = "running"
    /\ LET g == grabCnxRequest(lookupOutcome)
       IN  /\ wire' = g.wire
           /\ nextRequestId' = g.rid
           /\ ctor' = IF g.err # nil THEN "failed" ELSE "subscribeWait"
           /\ hist' = [hist EXCEPT !.grabCnxCalls = @ + 1,
                                   !.grabOutcome = IF g.err # nil THEN "lookupErr"
                                                   ELSE "pending"]
    /\ UNCHANGED <<state, cnx, handlerReg, loopPc>>
    /\ UNCHANGED <<options, consumerID, partitionIdx, omu, overflow, unAckTracker,
                   eventsChan, msgChan, loopCur, loopI, loopReqId, handles, hm, ra, rc,
                   tk, env, subType, position, other>>

\* newPartitionConsumer from the return of the SUBSCRIBE request on
newPartitionConsumerResponse(outcome) ==
    /\ ctor = "subscribeWait"
    /\ LET g == grabCnxResponse(outcome)
       IN  /\ wire' = g.wire
           /\ nextRequestId' = g.rid
           /\ cnx' = g.cnx
           /\ handlerReg' = g.handlerReg
           /\ IF g.err # nil
              THEN /\ ctor' = "failed"
                   /\ UNCHANGED <<state, loopPc>>
              ELSE /\ ctor' = "returned"
                   /\ state' = consumerReady
                   /\ loopPc' = "idle"
    /\ hist' = [hist EXCEPT !.grabOutcome = outcome,
                            !.handlerAdds = @ + (IF grabCnxResponse(outcome).added
                                                 THEN 1 ELSE 0)]
    /\ UNCHANGED <<options, consumerID, partitionIdx, omu, overflow, unAckTracker,
                   eventsChan, msgChan, loopCur, loopI, loopReqId, handles, hm, ra, rc,
                   tk, env, subType, position, other>>

newPartitionConsumer ==
    \/ \E lookupOutcome \in LookupOutcomes : newPartitionConsumerRequest(lookupOutcome)
    \/ \E outcome \in ResponseOutcomes : newPartitionConsumerResponse(outcome)

(***************************************************************************)
(* The public operations, on the caller's thread.  handles[k] is the k-th  *)
(* call: kind, msgID, waitGroup (its counter) and err are the fields of    *)
(* the handle* object it makes; at is where the caller stands ("send":     *)
(* before pc.eventsChan <- h, "wait": in wg.Wait(), "read": before return  *)
(* h.err, "returned"); enqueued, handled, outcome and ret are history (put *)
(* on eventsChan, internal handler returned, what the request came back    *)
(* with, what the call returned).                                          *)
(***************************************************************************)
WaitKinds == {"handleUnsubscribe", "handleAck", "handleRedeliver", "handlerClose"}

NewHandle(kind, msgID) ==
    [kind |-> kind, msgID |-> msgID, err |-> nil,
     waitGroup |-> IF kind \in WaitKinds THEN 1 ELSE 0,
     at |-> "send",
     enqueued |-> FALSE, handled |-> FALSE, outcome |-> "none", ret |-> "pending"]

\* the ids of the messages this consumer hands to the application
LocalIds ==
    { newMessageId(b.ledgerId, b.entryId, partitionIdx, b.batchIndex) : b \in BrokerIds }

InProgress == { k \in 1..Len(handles) : handles[k].at # "returned" }

\* a caller thread is free to start the operation, and the run allows it
MayCall(kind) ==
    /\ ctor = "returned"
    /\ kind \in env.kinds
    /\ Len(handles) < env.ops
    /\ Cardinality(InProgress) < NumCallers

CallerFrame == <<state, cnx, options, consumerID, partitionIdx, omu, overflow,
                 msgChan, handlerReg, nextRequestId, wire, ctor, loopPc, loopCur,
                 loopI, loopReqId, hm, hist, ra, rc, tk, env, subType, position, other>>

\* h := &handle...{...}; pc.eventsChan <- h
opSend(kind, msgID) ==
    /\ MayCall(kind)
    /\ Len(eventsChan) < eventsChanCap
    /\ handles' = Append(handles,
                     [NewHandle(kind, msgID) EXCEPT
                         !.enqueued = TRUE,
                         !.at = IF kind \in WaitKinds THEN "wait" ELSE "read"])
    /\ eventsChan' = Append(eventsChan, Len(handles) + 1)
    /\ UNCHANGED unAckTracker
    /\ UNCHANGED CallerFrame

\* wg.Wait(); return h.err
opWaitReturn(kind) ==
    /\ \E k \in 1..Len(handles) :
          /\ handles[k].kind = kind
          /\ handles[k].at = "wait"
          /\ handles[k].waitGroup = 0
          /\ handles' = [handles EXCEPT ![k].ret = handles[k].err, ![k].at = "returned"]
    /\ UNCHANGED <<eventsChan, unAckTracker>>
    /\ UNCHANGED CallerFrame

\* return h.err, right after the send
opReadReturn(kind) ==
    /\ \E k \in 1..Len(handles) :
          /\ handles[k].kind = kind
          /\ handles[k].at = "read"
          /\ handles' = [handles EXCEPT ![k].ret = handles[k].err, ![k].at = "returned"]
    /\ UNCHANGED <<eventsChan, unAckTracker>>
    /\ UNCHANGED CallerFrame

Unsubscribe ==
    \/ opSend("handleUnsubscribe", NoMsgID)
    \/ opWaitReturn("handleUnsubscribe")

AckID ==
    \/ \E msgID \in LocalIds : opSend("handleAck", msgID)
    \/ opWaitReturn("handleAck")

AckCumulativeID ==
    \/ \E msgID \in LocalIds : opSend("handleAckCumulative", msgID)
    \/ opReadReturn("handleAckCumulative")

Seek ==
    \/ \E msgID \in LocalIds : opSend("handleSeek", msgID)
    \/ opReadReturn("handleSeek")

RedeliverUnackedMessages ==
    \/ opSend("handleRedeliver", NoMsgID)
    \/ opWaitReturn("handleRedeliver")

\* CloseCheck as it would be if Close itself moved a Ready consumer to Closing.
CloseCheck_WritesState ==
    /\ MayCall("handlerClose")
    /\ IF state # consumerReady
       THEN /\ handles' = Append(handles, [NewHandle("handlerClose", NoMsgID)
                                              EXCEPT !.ret = nil, !.at = "returned"])
            /\ UNCHANGED <<unAckTracker, state>>
       ELSE /\ handles' = Append(handles, NewHandle("handlerClose", NoMsgID))
            /\ unAckTracker' = IF unAckTracker.present
                                  THEN trackerStop(unAckTracker) ELSE unAckTracker
            /\ state' = consumerClosing
    /\ UNCHANGED <<eventsChan, cnx, options, consumerID, partitionIdx, omu, overflow,
                   msgChan, handlerReg, nextRequestId, wire, ctor, loopPc, loopCur,
                   loopI, loopReqId, hm, hist, ra, rc, tk, env, subType, position, other>>

\* Close up to the send: the state check and the tracker's Stop.  A call that
\* returns at the check is recorded as a call that was never enqueued.
CloseCheck ==
    /\ MayCall("handlerClose")
    /\ IF state # consumerReady
       THEN /\ handles' = Append(handles, [NewHandle("handlerClose", NoMsgID)
                                              EXCEPT !.ret = nil, !.at = "returned"])
            /\ UNCHANGED unAckTracker
       ELSE /\ handles' = Append(handles, NewHandle("handlerClose", NoMsgID))
            /\ unAckTracker' = IF unAckTracker.present
                                  THEN trackerStop(unAckTracker) ELSE unAckTracker
    /\ UNCHANGED eventsChan
    /\ UNCHANGED CallerFrame

\* pc.eventsChan <- cc
CloseSend ==
    /\ Len(eventsChan) < eventsChanCap
    /\ \E k \in 1..Len(handles) :
          /\ handles[k].kind = "handlerClose"
          /\ handles[k].at = "send"
          /\ eventsChan' = Append(eventsChan, k)
          /\ handles' = [handles EXCEPT ![k].enqueued = TRUE, ![k].at = "wait"]
    /\ UNCHANGED unAckTracker
    /\ UNCHANGED CallerFrame

Close ==
    \/ CloseCheck
    \/ CloseSend
    \/ opWaitReturn("handlerClose")

(***************************************************************************)
(* runEventsLoop and the internal handlers, on the event-loop goroutine.   *)
(* A handler that waits for a response (RequestOnCnx) does so in a state   *)
(* of its own (seekWait, ackCumulativeWait, unsubscribeWait, closeWait,    *)
(* redeliverWait), with the response drawn from RequestOutcomes by the     *)
(* step that follows; internalAck does not wait (RequestOnCnxNoWait).      *)
(***************************************************************************)
connectionClosedEvent == 0

EventKind(e) == IF e = connectionClosedEvent THEN "connectionClosed" ELSE handles[e].kind

\* case i := <-pc.eventsChan, with i of the given kind
Takes(kind) ==
    /\ loopPc = "idle"
    /\ eventsChan # <<>>
    /\ EventKind(Head(eventsChan)) = kind

Recorded(h, outcome) ==
    [h EXCEPT !.err = IF outcome # nil THEN outcome ELSE @,
              !.outcome = outcome,
              !.handled = TRUE]

Done(h) == [h EXCEPT !.waitGroup = @ - 1]

LoopFrame == <<cnx, options, consumerID, partitionIdx, msgChan, ctor, hm, ra, rc,
               tk, env, subType, position, other>>

\* internalSeek up to the SEEK request
internalSeekBegin ==
    /\ Takes("handleSeek")
    /\ LET e == Head(eventsChan)
           requestID == NewRequestId(nextRequestId)
       IN  /\ eventsChan' = Tail(eventsChan)
           /\ nextRequestId' = requestID
           /\ wire' = Append(wire, Cmd("SEEK", requestID, Serialize(handles[e].msgID)))
           /\ loopPc' = "seekWait"
           /\ loopCur' = e
    /\ UNCHANGED <<state, omu, overflow, unAckTracker, handlerReg, handles,
                   loopI, loopReqId, hist>>
    /\ UNCHANGED LoopFrame

\* internalSeek from the response of SEEK on
internalSeekEnd(outcome) ==
    /\ loopPc = "seekWait"
    /\ handles' = [handles EXCEPT ![loopCur] = Recorded(@, outcome)]
    /\ loopPc' = "idle"
    /\ loopCur' = 0
    /\ UNCHANGED <<state, omu, overflow, unAckTracker, eventsChan, handlerReg,
                   nextRequestId, wire, loopI, loopReqId, hist>>
    /\ UNCHANGED LoopFrame

internalSeek ==
    \/ internalSeekBegin
    \/ \E outcome \in RequestOutcomes : internalSeekEnd(outcome)

\* internalAckCumulative up to the ACK request
internalAckCumulativeBegin ==
    /\ Takes("handleAckCumulative")
    /\ LET e == Head(eventsChan)
           id == Serialize(handles[e].msgID)
           requestID == NewRequestId(nextRequestId)
       IN  /\ eventsChan' = Tail(eventsChan)
           /\ nextRequestId' = requestID
           /\ wire' = Append(wire, Cmd("ACK", requestID,
                                       [ackType |-> "Cumulative", messageId |-> <<id>>]))
           /\ loopPc' = "ackCumulativeWait"
           /\ loopCur' = e
    /\ UNCHANGED <<state, omu, overflow, unAckTracker, handlerReg, handles,
                   loopI, loopReqId, hist>>
    /\ UNCHANGED LoopFrame

\* internalAckCumulative from the response of ACK on
internalAckCumulativeEnd(outcome) ==
    /\ loopPc = "ackCumulativeWait"
    /\ LET id == Serialize(handles[loopCur].msgID)
       IN  unAckTracker' = IF unAckTracker.present
                              THEN trackerRemove(unAckTracker, id) ELSE unAckTracker
    /\ handles' = [handles EXCEPT ![loopCur] = Recorded(@, outcome)]
    /\ loopPc' = "idle"
    /\ loopCur' = 0
    /\ UNCHANGED <<state, omu, overflow, eventsChan, handlerReg, nextRequestId, wire,
                   loopI, loopReqId, hist>>
    /\ UNCHANGED LoopFrame

internalAckCumulative ==
    \/ internalAckCumulativeBegin
    \/ \E outcome \in RequestOutcomes : internalAckCumulativeEnd(outcome)

\* RequestOnCnxNoWait: an error means the command was not written.
internalAck(outcome) ==
    /\ Takes("handleAck")
    /\ LET e == Head(eventsChan)
           id == Serialize(handles[e].msgID)
           requestID == NewRequestId(nextRequestId)
       IN  /\ eventsChan' = Tail(eventsChan)
           /\ nextRequestId' = requestID
           /\ wire' = IF outcome # nil THEN wire
                       ELSE Append(wire, Cmd("ACK", requestID,
                                       [ackType |-> "Individual", messageId |-> <<id>>]))
           /\ handles' = [handles EXCEPT ![e] = Done(Recorded(@, outcome))]
           /\ unAckTracker' = IF unAckTracker.present
                                 THEN trackerRemove(unAckTracker, id) ELSE unAckTracker
    /\ UNCHANGED <<state, omu, overflow, handlerReg, loopPc, loopCur, loopI,
                   loopReqId, hist>>
    /\ UNCHANGED LoopFrame

\* internalUnsubscribe up to the UNSUBSCRIBE request
internalUnsubscribeBegin ==
    /\ Takes("handleUnsubscribe")
    /\ LET e == Head(eventsChan)
           requestID == NewRequestId(nextRequestId)
       IN  /\ eventsChan' = Tail(eventsChan)
           /\ nextRequestId' = requestID
           /\ wire' = Append(wire, Cmd("UNSUBSCRIBE", requestID, nil))
           /\ loopPc' = "unsubscribeWait"
           /\ loopCur' = e
    /\ UNCHANGED <<state, omu, overflow, unAckTracker, handlerReg, handles,
                   loopI, loopReqId, hist>>
    /\ UNCHANGED LoopFrame

\* internalUnsubscribe from the response of UNSUBSCRIBE on
internalUnsubscribeEnd(outcome) ==
    /\ loopPc = "unsubscribeWait"
    /\ handles' = [handles EXCEPT ![loopCur] = Done(Recorded(@, outcome))]
    /\ handlerReg' = FALSE
    /\ unAckTracker' = IF unAckTracker.present
                          THEN trackerStop(unAckTracker) ELSE unAckTracker
    /\ loopPc' = "idle"
    /\ loopCur' = 0
    /\ UNCHANGED <<state, omu, overflow, eventsChan, nextRequestId, wire,
                   loopI, loopReqId, hist>>
    /\ UNCHANGED LoopFrame

internalUnsubscribe ==
    \/ internalUnsubscribeBegin
    \/ \E outcome \in RequestOutcomes : internalUnsubscribeEnd(outcome)

\* internalCloseBegin as it would be if it went to Closed at once.
internalCloseBegin_SkipsClosing ==
    /\ Takes("handlerClose")
    /\ LET e == Head(eventsChan)
           requestID == NewRequestId(nextRequestId)
       IN  /\ eventsChan' = Tail(eventsChan)
           /\ IF state # consumerReady
              THEN /\ handles' = [handles EXCEPT ![e] = Done([@ EXCEPT !.handled = TRUE])]
                   /\ loopPc' = "done"
                   /\ UNCHANGED <<state, nextRequestId, wire, loopCur>>
              ELSE /\ state' = consumerClosed
                   /\ nextRequestId' = requestID
                   /\ wire' = Append(wire, Cmd("CLOSE_CONSUMER", requestID, nil))
                   /\ loopPc' = "closeWait"
                   /\ loopCur' = e
                   /\ UNCHANGED handles
    /\ UNCHANGED <<omu, overflow, unAckTracker, handlerReg, loopI, loopReqId, hist>>
    /\ UNCHANGED LoopFrame

\* internalClose up to the CLOSE_CONSUMER request; runEventsLoop returns
\* after internalClose, whatever it did.
internalCloseBegin ==
    /\ Takes("handlerClose")
    /\ LET e == Head(eventsChan)
           requestID == NewRequestId(nextRequestId)
       IN  /\ eventsChan' = Tail(eventsChan)
           /\ IF state # consumerReady
              THEN /\ handles' = [handles EXCEPT ![e] = Done([@ EXCEPT !.handled = TRUE])]
                   /\ loopPc' = "done"
                   /\ UNCHANGED <<state, nextRequestId, wire, loopCur>>
              ELSE /\ state' = consumerClosing
                   /\ nextRequestId' = requestID
                   /\ wire' = Append(wire, Cmd("CLOSE_CONSUMER", requestID, nil))
                   /\ loopPc' = "closeWait"
                   /\ loopCur' = e
                   /\ UNCHANGED handles
    /\ UNCHANGED <<omu, overflow, unAckTracker, handlerReg, loopI, loopReqId, hist>>
    /\ UNCHANGED LoopFrame

\* internalCloseEnd as it would be if a failed close put the consumer back to
\* Ready and the loop went on, so that a later close could try again.
internalCloseEnd_RetryAfterFailure(outcome) ==
    /\ loopPc = "closeWait"
    /\ handlerReg' = FALSE
    /\ state' = IF outcome # nil THEN consumerReady ELSE consumerClosed
    /\ handles' = [handles EXCEPT ![loopCur] = Done(Recorded(@, outcome))]
    /\ loopPc' = IF outcome # nil THEN "idle" ELSE "done"
    /\ loopCur' = 0
    /\ UNCHANGED <<omu, overflow, unAckTracker, eventsChan, nextRequestId, wire,
                   loopI, loopReqId, hist>>
    /\ UNCHANGED LoopFrame

\* internalClose from the response of CLOSE_CONSUMER on
internalCloseEnd(outcome) ==
    /\ loopPc = "closeWait"
    /\ handlerReg' = FALSE
    /\ state' = IF outcome # nil THEN state ELSE consumerClosed
    /\ handles' = [handles EXCEPT ![loopCur] = Done(Recorded(@, outcome))]
    /\ loopPc' = "done"
    /\ loopCur' = 0
    /\ UNCHANGED <<omu, overflow, unAckTracker, eventsChan, nextRequestId, wire,
                   loopI, loopReqId, hist>>
    /\ UNCHANGED LoopFrame

internalClose ==
    \/ internalCloseBegin
    \/ \E outcome \in RequestOutcomes : internalCloseEnd(outcome)

\* redeliverChunk as it would be if end did not move with i.
redeliverChunk_EndOfFirstChunk(i) ==
    LET overFlowSize == Len(overflow)
        end == IF maxRedeliverUnacknowledged > overFlowSize
               THEN overFlowSize ELSE maxRedeliverUnacknowledged
    IN  SubSeq(overflow, i + 1, end)

\* pc.overflow[i:end] of internalRedeliver's loop body
redeliverChunk(i) ==
    LET overFlowSize == Len(overflow)
        end == IF i + maxRedeliverUnacknowledged > overFlowSize
               THEN overFlowSize ELSE i + maxRedeliverUnacknowledged
    IN  SubSeq(overflow, i + 1, end)

RedeliverCmd(requestID, i) ==
    Cmd("REDELIVER_UNACKNOWLEDGED_MESSAGES", requestID, redeliverChunk(i))

\* internalRedeliver up to its first request
internalRedeliverBegin ==
    /\ Takes("handleRedeliver")
    /\ omu = "free"
    /\ LET e == Head(eventsChan)
           requestID == NewRequestId(nextRequestId)
       IN  /\ eventsChan' = Tail(eventsChan)
           /\ IF Len(overflow) = 0
              THEN /\ handles' = [handles EXCEPT ![e].handled = TRUE]
                   /\ UNCHANGED <<omu, nextRequestId, wire, loopPc, loopCur, loopI,
                                  loopReqId>>
              ELSE /\ omu' = "loop"
                   /\ nextRequestId' = requestID
                   /\ wire' = Append(wire, RedeliverCmd(requestID, 0))
                   /\ loopPc' = "redeliverWait"
                   /\ loopCur' = e
                   /\ loopI' = 0
                   /\ loopReqId' = requestID
                   /\ UNCHANGED handles
    /\ UNCHANGED <<state, overflow, unAckTracker, handlerReg, hist>>
    /\ UNCHANGED LoopFrame

\* internalRedeliver from a response on: the next chunk, or the end
internalRedeliverNext(outcome) ==
    /\ loopPc = "redeliverWait"
    /\ LET i == loopI + maxRedeliverUnacknowledged
           h == [handles[loopCur] EXCEPT
                    !.err = IF outcome # nil THEN outcome ELSE @,
                    !.outcome = IF outcome # nil \/ @ = "none" THEN outcome ELSE @]
       IN  IF i < Len(overflow)
           THEN /\ wire' = Append(wire, RedeliverCmd(loopReqId, i))
                /\ loopI' = i
                /\ handles' = [handles EXCEPT ![loopCur] = h]
                /\ UNCHANGED <<omu, overflow, unAckTracker, loopPc, loopCur, loopReqId,
                               hist>>
           ELSE /\ overflow' = <<>>
                /\ unAckTracker' = IF unAckTracker.present
                                      THEN trackerClear(unAckTracker) ELSE unAckTracker
                /\ handles' = [handles EXCEPT ![loopCur] = Done([h EXCEPT !.handled = TRUE])]
                /\ omu' = "free"
                /\ loopPc' = "idle"
                /\ loopCur' = 0
                /\ loopI' = 0
                /\ loopReqId' = 0
                /\ hist' = [hist EXCEPT !.redelivers = @ + 1]
                /\ UNCHANGED wire
    /\ UNCHANGED <<state, eventsChan, handlerReg, nextRequestId>>
    /\ UNCHANGED LoopFrame

internalRedeliver ==
    \/ internalRedeliverBegin
    \/ \E outcome \in RequestOutcomes : internalRedeliverNext(outcome)

\* The type switch of runEventsLoop has no case for *connectionClosed: the
\* event is taken off the channel and the loop goes on.
noCaseForEvent ==
    /\ Takes("connectionClosed")
    /\ eventsChan' = Tail(eventsChan)
    /\ hist' = [hist EXCEPT !.ccTaken = @ + 1]
    /\ UNCHANGED <<state, omu, overflow, unAckTracker, handlerReg, nextRequestId,
                   wire, loopPc, loopCur, loopI, loopReqId, handles>>
    /\ UNCHANGED LoopFrame

runEventsLoop ==
    \/ internalClose
    \/ internalSeek
    \/ internalUnsubscribe
    \/ internalAckCumulative
    \/ \E outcome \in RequestOutcomes : internalAck(outcome)
    \/ internalRedeliver
    \/ noCaseForEvent

(***************************************************************************)
(* The connection layer's callbacks and the user's receive.                *)
(***************************************************************************)
DispatchFrame == <<state, cnx, options, consumerID, partitionIdx, unAckTracker,
                   handlerReg, nextRequestId, wire, ctor, loopPc, loopCur, loopI,
                   loopReqId, handles, ra, rc, tk, env, subType, position, other>>

\* HandlerMessage up to the select: the message built from the command, then
\* the non-blocking send.  parsed: internal.ParseMessage returned no error.
HandlerMessageEnqueue(newMid, parsed) ==
    /\ handlerReg
    /\ hm.pc = "idle"
    /\ hist.pushes < env.pushes
    /\ LET id == newMessageId(newMid.ledgerId, newMid.entryId,
                              partitionIdx, newMid.batchIndex)
       IN  IF ~parsed
           THEN /\ hist' = [hist EXCEPT !.pushes = @ + 1, !.hmRet = "parse message error"]
                /\ UNCHANGED <<msgChan, hm>>
           ELSE IF Len(msgChan) < chanCap
           THEN /\ msgChan' = Append(msgChan, id)
                /\ hist' = [hist EXCEPT !.pushes = @ + 1,
                                        !.pushed = Append(@, newMid),
                                        !.hmRet = nil]
                /\ UNCHANGED hm
           ELSE /\ hm' = [pc |-> "lock", newMid |-> newMid]
                /\ hist' = [hist EXCEPT !.pushes = @ + 1,
                                        !.pushed = Append(@, newMid),
                                        !.hmRet = "running"]
                /\ UNCHANGED msgChan
    /\ UNCHANGED <<omu, overflow, eventsChan>>
    /\ UNCHANGED DispatchFrame

\* HandlerMessageOverflow as it would be without the scan for a duplicate.
HandlerMessageOverflow_NoScan ==
    /\ hm.pc = "lock"
    /\ omu = "free"
    /\ overflow' = Append(overflow, hm.newMid)
    /\ hm' = NoHm
    /\ hist' = [hist EXCEPT !.hmRet = "queue is full"]
    /\ UNCHANGED <<omu, msgChan, eventsChan>>
    /\ UNCHANGED DispatchFrame

\* HandlerMessageOverflow as it would be with the test of dup inverted.
HandlerMessageOverflow_DupInverted ==
    /\ hm.pc = "lock"
    /\ omu = "free"
    /\ LET dup == \E k \in 1..Len(overflow) : protoEqual(overflow[k], hm.newMid)
       IN  overflow' = IF dup THEN Append(overflow, hm.newMid) ELSE overflow
    /\ hm' = NoHm
    /\ hist' = [hist EXCEPT !.hmRet = "queue is full"]
    /\ UNCHANGED <<omu, msgChan, eventsChan>>
    /\ UNCHANGED DispatchFrame

\* the default branch of the select, under pc.omu
HandlerMessageOverflow ==
    /\ hm.pc = "lock"
    /\ omu = "free"
    /\ LET dup == \E k \in 1..Len(overflow) : protoEqual(overflow[k], hm.newMid)
       IN  overflow' = IF dup THEN overflow ELSE Append(overflow, hm.newMid)
    /\ hm' = NoHm
    /\ hist' = [hist EXCEPT !.hmRet = "queue is full"]
    /\ UNCHANGED <<omu, msgChan, eventsChan>>
    /\ UNCHANGED DispatchFrame

HandlerMessage ==
    \/ \E newMid \in env.ids, parsed \in BOOLEAN : HandlerMessageEnqueue(newMid, parsed)
    \/ HandlerMessageOverflow

\* pc.eventsChan <- &connectionClosed{}
ConnectionClosed ==
    /\ handlerReg
    /\ hist.connClosed < env.connClosed
    /\ Len(eventsChan) < eventsChanCap
    /\ eventsChan' = Append(eventsChan, connectionClosedEvent)
    /\ hist' = [hist EXCEPT !.connClosed = @ + 1]
    /\ UNCHANGED <<omu, overflow, msgChan, hm>>
    /\ UNCHANGED DispatchFrame

\* Receive as it would be if it gave the broker a permit back for the
\* message it took.
Receive_GrantsPermit ==
    /\ ctor = "returned"
    /\ msgChan # <<>>
    /\ LET cm == Head(msgChan)
           id == Serialize(cm)
           f == internalFlow(1, nil, wire, nextRequestId)
       IN  /\ msgChan' = Tail(msgChan)
           /\ unAckTracker' = IF unAckTracker.present
                                 THEN trackerAdd(unAckTracker, id) ELSE unAckTracker
           /\ wire' = f.wire
           /\ nextRequestId' = f.rid
    /\ hist' = [hist EXCEPT !.received = @ + 1]
    /\ UNCHANGED <<state, cnx, options, consumerID, partitionIdx, omu, overflow,
                   eventsChan, handlerReg, ctor, loopPc, loopCur,
                   loopI, loopReqId, handles, hm, ra, rc, tk, env, subType, position, other>>

\* Receive, the branch that takes a message from the channel
Receive ==
    /\ ctor = "returned"
    /\ msgChan # <<>>
    /\ LET cm == Head(msgChan)
           id == Serialize(cm)
       IN  /\ msgChan' = Tail(msgChan)
           /\ unAckTracker' = IF unAckTracker.present
                                 THEN trackerAdd(unAckTracker, id) ELSE unAckTracker
    /\ hist' = [hist EXCEPT !.received = @ + 1]
    /\ UNCHANGED <<state, cnx, options, consumerID, partitionIdx, omu, overflow,
                   eventsChan, handlerReg, nextRequestId, wire, ctor, loopPc, loopCur,
                   loopI, loopReqId, handles, hm, ra, rc, tk, env, subType, position, other>>

(***************************************************************************)
(* ReceiveAsync.  ra.forwarded counts the messages sent on msgs, ra.flows  *)
(* lists the permits of the FLOW commands the call has sent (history).     *)
(***************************************************************************)
highwaterOf(capacity) == Max(capacity \div 2, 1)

AsyncFrame == <<state, cnx, options, consumerID, partitionIdx, omu, overflow,
                eventsChan, handlerReg, ctor, loopPc, loopCur, loopI, loopReqId,
                handles, hm, hist, rc, tk, env, subType, position, other>>

\* up to the for loop: FLOW(highwater)
ReceiveAsyncBegin(flowOutcome) ==
    /\ ctor = "returned"
    /\ env.async
    /\ ra.pc = "idle"
    /\ LET highwater == highwaterOf(chanCap)
           f == internalFlow(highwater, flowOutcome, wire, nextRequestId)
       IN  /\ wire' = f.wire
           /\ nextRequestId' = f.rid
           /\ ra' = IF f.err # nil
                     THEN [ra EXCEPT !.pc = "returned", !.highwater = highwater]
                     ELSE [ra EXCEPT !.pc = "select", !.highwater = highwater,
                                     !.permits = highwater,
                                     !.flows = Append(@, highwater)]
    /\ UNCHANGED <<msgChan, unAckTracker>>
    /\ UNCHANGED AsyncFrame

\* case tmpMsg, ok := <-pc.options.MessageChannel
ReceiveAsyncTake ==
    /\ ra.pc = "select"
    /\ msgChan # <<>>
    /\ msgChan' = Tail(msgChan)
    /\ ra' = [ra EXCEPT !.tmpMsg = Head(msgChan), !.pc = "forward"]
    /\ UNCHANGED <<wire, nextRequestId, unAckTracker>>
    /\ UNCHANGED AsyncFrame

\* msgs <- tmpMsg, once the caller's channel takes it, up to
\* receivedSinceFlow++
ReceiveAsyncForward ==
    /\ ra.pc = "forward"
    /\ LET id == Serialize(ra.tmpMsg)
       IN  unAckTracker' = IF unAckTracker.present
                              THEN trackerAdd(unAckTracker, id) ELSE unAckTracker
    /\ ra' = [ra EXCEPT !.forwarded = @ + 1,
                         !.receivedSinceFlow = @ + 1,
                         !.tmpMsg = NoMsgID,
                         !.pc = "check"]
    /\ UNCHANGED <<wire, nextRequestId, msgChan>>
    /\ UNCHANGED AsyncFrame

\* ReceiveAsyncFlow as it would be without receivedSinceFlow = 0.
ReceiveAsyncFlow_NoReset(flowOutcome) ==
    /\ ra.pc = "check"
    /\ IF ra.receivedSinceFlow >= ra.highwater
       THEN LET f == internalFlow(ra.receivedSinceFlow, flowOutcome, wire, nextRequestId)
            IN  /\ wire' = f.wire
                /\ nextRequestId' = f.rid
                /\ ra' = IF f.err # nil
                          THEN [ra EXCEPT !.pc = "returned"]
                          ELSE [ra EXCEPT !.pc = "select",
                                          !.permits = @ + ra.receivedSinceFlow,
                                          !.flows = Append(@, ra.receivedSinceFlow)]
       ELSE /\ flowOutcome = nil
            /\ ra' = [ra EXCEPT !.pc = "select"]
            /\ UNCHANGED <<wire, nextRequestId>>
    /\ UNCHANGED <<msgChan, unAckTracker>>
    /\ UNCHANGED AsyncFrame

\* if receivedSinceFlow >= highwater { internalFlow(receivedSinceFlow) ... }
ReceiveAsyncFlow(flowOutcome) ==
    /\ ra.pc = "check"
    /\ IF ra.receivedSinceFlow >= ra.highwater
       THEN LET f == internalFlow(ra.receivedSinceFlow, flowOutcome, wire, nextRequestId)
            IN  /\ wire' = f.wire
                /\ nextRequestId' = f.rid
                /\ ra' = IF f.err # nil
                          THEN [ra EXCEPT !.pc = "returned"]
                          ELSE [ra EXCEPT !.pc = "select",
                                          !.permits = @ + ra.receivedSinceFlow,
                                          !.flows = Append(@, ra.receivedSinceFlow),
                                          !.receivedSinceFlow = 0]
       ELSE /\ flowOutcome = nil
            /\ ra' = [ra EXCEPT !.pc = "select"]
            /\ UNCHANGED <<wire, nextRequestId>>
    /\ UNCHANGED <<msgChan, unAckTracker>>
    /\ UNCHANGED AsyncFrame

\* case <-ctx.Done()
ReceiveAsyncCancelled ==
    /\ ra.pc = "select"
    /\ ra' = [ra EXCEPT !.pc = "returned"]
    /\ UNCHANGED <<msgChan, unAckTracker, wire, nextRequestId>>
    /\ UNCHANGED AsyncFrame

ReceiveAsync ==
    \/ \E flowOutcome \in RequestOutcomes : ReceiveAsyncBegin(flowOutcome)
    \/ ReceiveAsyncTake
    \/ ReceiveAsyncForward
    \/ \E flowOutcome \in RequestOutcomes : ReceiveAsyncFlow(flowOutcome)
    \/ ReceiveAsyncCancelled

Next ==
    \/ newPartitionConsumer
    \/ Unsubscribe
    \/ AckID
    \/ AckCumulativeID
    \/ Seek
    \/ RedeliverUnackedMessages
    \/ Close
    \/ runEventsLoop
    \/ HandlerMessage
    \/ ConnectionClosed
    \/ Receive
    \/ ReceiveAsync

Spec == Init /\ [][Next]_vars

(***************************************************************************)
(* reconnectToBroker.  Nothing in the two files calls it: runEventsLoop    *)
(* has no case for the connectionClosed event.  SpecReconnect is Spec with *)
(* the method called on the consumer; a turn of its loop is the check of   *)
(* pc.state, grabCnx up to its SUBSCRIBE request, and grabCnx from the     *)
(* response on, with the other goroutines running in between.              *)
(***************************************************************************)
ReconnectEnvironments ==
    { [kinds |-> {"handlerClose"}, ops |-> 1, pushes |-> 2, connClosed |-> 1,
       queue |-> 1, ids |-> {FirstId}, async |-> FALSE] }

ReconnectFrame == <<options, consumerID, partitionIdx, omu, overflow, unAckTracker,
                    eventsChan, msgChan, state, ctor, loopPc, loopCur, loopI,
                    loopReqId, handles, hm, ra, tk, env, subType, position, other>>

reconnectBegin ==
    /\ ctor = "returned"
    /\ rc = "idle"
    /\ hist.grabCnxCalls < MaxGrab
    /\ rc' = "running"
    /\ UNCHANGED <<cnx, handlerReg, nextRequestId, wire, hist>>
    /\ UNCHANGED ReconnectFrame

\* the top of the for loop: if pc.state != consumerReady { return }, else the
\* call of grabCnx
reconnectCheck ==
    /\ rc = "running"
    /\ IF state # consumerReady
       THEN rc' = "idle"
       ELSE /\ hist.grabCnxCalls < MaxGrab
            /\ rc' = "lookup"
    /\ UNCHANGED <<cnx, handlerReg, nextRequestId, wire, hist>>
    /\ UNCHANGED ReconnectFrame

\* grabCnx to its SUBSCRIBE request; a failed Lookup is followed by the sleep
reconnectRequest(lookupOutcome) ==
    /\ rc = "lookup"
    /\ LET g == grabCnxRequest(lookupOutcome)
       IN  /\ wire' = g.wire
           /\ nextRequestId' = g.rid
           /\ rc' = IF g.err # nil THEN "running" ELSE "subscribeWait"
           /\ hist' = [hist EXCEPT !.grabCnxCalls = @ + 1,
                                   !.grabOutcome = IF g.err # nil THEN "lookupErr"
                                                   ELSE "pending"]
    /\ UNCHANGED <<cnx, handlerReg>>
    /\ UNCHANGED ReconnectFrame

\* grabCnx from the return of the SUBSCRIBE request on; an error is followed
\* by the sleep
reconnectResponse(outcome) ==
    /\ rc = "subscribeWait"
    /\ LET g == grabCnxResponse(outcome)
       IN  /\ wire' = g.wire
           /\ nextRequestId' = g.rid
           /\ cnx' = g.cnx
           /\ handlerReg' = g.handlerReg
           /\ rc' = IF g.err = nil THEN "idle" ELSE "running"
    /\ hist' = [hist EXCEPT !.grabOutcome = outcome,
                            !.handlerAdds = @ + (IF grabCnxResponse(outcome).added
                                                 THEN 1 ELSE 0)]
    /\ UNCHANGED ReconnectFrame

reconnectToBroker ==
    \/ reconnectBegin
    \/ reconnectCheck
    \/ \E lookupOutcome \in LookupOutcomes : reconnectRequest(lookupOutcome)
    \/ \E outcome \in ResponseOutcomes : reconnectResponse(outcome)

InitReconnect == InitWith(ReconnectEnvironments)

\* the steps of Next that a run of ReconnectEnvironments can take, and
\* reconnectToBroker
NextReconnect ==
    \/ newPartitionConsumer
    \/ Close
    \/ internalClose
    \/ noCaseForEvent
    \/ HandlerMessage
    \/ ConnectionClosed
    \/ Receive
    \/ reconnectToBroker

SpecReconnect == InitReconnect /\ [][NextReconnect]_vars

(***************************************************************************)
(* Another partition consumer constructed in the same process, beside the  *)
(* construction of this one or later.  subType and position are            *)
(* package-level variables that every construction writes without a lock:  *)
(* setDefault writes position, then subType; the switch on options.Type    *)
(* writes subType; the switch on options.SubscriptionInitPos writes        *)
(* position.  In SpecAlias each of these writes is a step, of this         *)
(* construction and of the other, and the steps interleave freely with     *)
(* each other and with grabCnx, which reads both variables when it builds  *)
(* its SUBSCRIBE.  Of the other construction only the four writes are      *)
(* modelled.  The run starts with whatever earlier constructions left in   *)
(* the two variables.                                                      *)
(***************************************************************************)
AliasEnvironments ==
    { [kinds |-> {}, ops |-> 0, pushes |-> 2, connClosed |-> 0, queue |-> 1,
       ids |-> {FirstId}, async |-> FALSE] }

OtherOptions ==
    [Type : {"Exclusive", "Failover", "Shared", "KeyShared"},
     SubscriptionInitPos : {"Latest", "Earliest"}]

SubTypeValues == { switchType(o.Type, setDefaultSubType) : o \in OtherOptions }
PositionValues ==
    { switchInitPos(o.SubscriptionInitPos, setDefaultPosition) : o \in OtherOptions }

SetupFrame == <<state, cnx, options, consumerID, partitionIdx, omu, overflow,
                eventsChan, msgChan, handlerReg, nextRequestId, wire,
                loopPc, loopCur, loopI, loopReqId, handles, hm, hist, ra, rc,
                tk, env, other>>

\* setDefault of this construction: position = pb.CommandSubscribe_Latest
setDefaultWritesPosition ==
    /\ ctor = "setDefault"
    /\ position' = setDefaultPosition
    /\ ctor' = "subType"
    /\ UNCHANGED <<subType, unAckTracker>>
    /\ UNCHANGED SetupFrame

\* setDefault of this construction: subType = pb.CommandSubscribe_Exclusive
setDefaultWritesSubType ==
    /\ ctor = "subType"
    /\ subType' = setDefaultSubType
    /\ ctor' = "switchType"
    /\ UNCHANGED <<position, unAckTracker>>
    /\ UNCHANGED SetupFrame

\* the switch on options.Type, then the tracker made and started
constructorSwitchType ==
    /\ ctor = "switchType"
    /\ subType' = switchType(options.Type, subType)
    /\ unAckTracker' = newTracker
    /\ ctor' = "switchInitPos"
    /\ UNCHANGED position
    /\ UNCHANGED SetupFrame

\* the switch on options.SubscriptionInitPos; grabCnx is called next
constructorSwitchInitPos ==
    /\ ctor = "switchInitPos"
    /\ position' = switchInitPos(options.SubscriptionInitPos, position)
    /\ ctor' = "running"
    /\ UNCHANGED <<subType, unAckTracker>>
    /\ UNCHANGED SetupFrame

newPartitionConsumerSetup ==
    \/ setDefaultWritesPosition
    \/ setDefaultWritesSubType
    \/ constructorSwitchType
    \/ constructorSwitchInitPos

OtherFrame == <<state, cnx, options, consumerID, partitionIdx, omu, overflow,
                unAckTracker, eventsChan, msgChan, handlerReg, nextRequestId, wire,
                ctor, loopPc, loopCur, loopI, loopReqId, handles, hm, hist, ra, rc,
                tk, env>>

\* setDefault of the other construction, called with options o:
\* position = pb.CommandSubscribe_Latest
otherSetDefaultPosition(o) ==
    /\ other.pc = "idle"
    /\ other.n < MaxOthers
    /\ other' = [pc |-> "subType", Type |-> o.Type,
                 SubscriptionInitPos |-> o.SubscriptionInitPos, n |-> other.n + 1]
    /\ position' = setDefaultPosition
    /\ UNCHANGED subType
    /\ UNCHANGED OtherFrame

\* setDefault of the other construction: subType = pb.CommandSubscribe_Exclusive
otherSetDefaultSubType ==
    /\ other.pc = "subType"
    /\ other' = [other EXCEPT !.pc = "type"]
    /\ subType' = setDefaultSubType
    /\ UNCHANGED position
    /\ UNCHANGED OtherFrame

otherSetDefault ==
    \/ \E o \in OtherOptions : otherSetDefaultPosition(o)
    \/ otherSetDefaultSubType

\* its switch on options.Type
otherSwitchType ==
    /\ other.pc = "type"
    /\ subType' = switchType(other.Type, subType)
    /\ other' = [other EXCEPT !.pc = "pos"]
    /\ UNCHANGED position
    /\ UNCHANGED OtherFrame

\* its switch on options.SubscriptionInitPos
otherSwitchInitPos ==
    /\ other.pc = "pos"
    /\ position' = switchInitPos(other.SubscriptionInitPos, position)
    /\ other' = [other EXCEPT !.pc = "idle"]
    /\ UNCHANGED subType
    /\ UNCHANGED OtherFrame

otherNewPartitionConsumer ==
    \/ otherSetDefault
    \/ otherSwitchType
    \/ otherSwitchInitPos

\* this construction at its call of setDefault
InitAlias ==
    /\ InitStruct(AliasEnvironments)
    /\ unAckTracker = NoTracker
    /\ ctor = "setDefault"
    /\ subType \in SubTypeValues
    /\ position \in PositionValues

NextAlias ==
    \/ newPartitionConsumerSetup
    \/ newPartitionConsumer
    \/ otherNewPartitionConsumer
    \/ HandlerMessage
    \/ Receive

SpecAlias == InitAlias /\ [][NextAlias]_vars

(***************************************************************************)
(* internalRedeliver on a long overflow list.  The run starts where n + 1  *)
(* pushes of the entries 1 .. n + 1 into a queue of capacity 1 leave a     *)
(* consumer whose application has received nothing: the first message is   *)
(* in the queue, the other n ids are in the overflow list.  From there the *)
(* application calls RedeliverUnackedMessages and Receive while the broker *)
(* goes on pushing.                                                        *)
(***************************************************************************)
OverflowSizes ==
    {1} \cup { k * maxRedeliverUnacknowledged : k \in 1..MaxChunks }
        \cup { k * maxRedeliverUnacknowledged + 1 : k \in 1..MaxChunks }

Entry(i) == [ledgerId |-> 7, entryId |-> i, partition |-> -1, batchIndex |-> -1]

\* the ids of the later pushes: one that is in the overflow list, one that
\* was never pushed
LatePushes(n) == { Entry(2), Entry(n + 2) }

InitRedeliver ==
    /\ \E n \in OverflowSizes :
          /\ env = [kinds |-> {"handleRedeliver"}, ops |-> 2, pushes |-> n + 3,
                    connClosed |-> 0, queue |-> 1, ids |-> LatePushes(n),
                    async |-> FALSE]
          /\ overflow = [i \in 1..n |-> Entry(i + 1)]
          /\ hist = [InitHist EXCEPT !.pushed = [i \in 1..(n + 1) |-> Entry(i)],
                                     !.pushes = n + 1,
                                     !.hmRet = "queue is full",
                                     !.grabCnxCalls = 1,
                                     !.grabOutcome = "ok",
                                     !.handlerAdds = 1]
    /\ state = consumerReady
    /\ cnx = 1
    /\ options \in {setDefault(o) : o \in RawOptions(env.queue)}
    /\ consumerID = 5
    /\ partitionIdx = 2
    /\ omu = "free"
    /\ unAckTracker = IF options.Type = "Shared" /\ options.AckTimeout # 0
                         THEN trackerStart(NewUnackedMessageTracker)
                         ELSE NoTracker
    /\ eventsChan = <<>>
    /\ msgChan = <<newMessageId(7, 1, partitionIdx, -1)>>
    /\ handlerReg = TRUE
    /\ nextRequestId = 2
    /\ subType = switchType(options.Type, setDefaultSubType)
    /\ position = switchInitPos(options.SubscriptionInitPos, setDefaultPosition)
    /\ wire = <<[type |-> "SUBSCRIBE", consumerId |-> consumerID, requestId |-> 1,
                 arg |-> [subscription |-> options.SubscriptionName,
                          subType |-> subType, initialPosition |-> position]],
                [type |-> "FLOW", consumerId |-> consumerID, requestId |-> 2,
                 arg |-> options.ReceiverQueueSize]>>
    /\ ctor = "returned"
    /\ loopPc = "idle"
    /\ loopCur = 0
    /\ loopI = 0
    /\ loopReqId = 0
    /\ handles = <<>>
    /\ hm = NoHm
    /\ ra = NoReceiveAsync
    /\ rc = "idle"
    /\ tk = NoTicks
    /\ other = NoOther

NextRedeliver ==
    \/ RedeliverUnackedMessages
    \/ internalRedeliver
    \/ HandlerMessage
    \/ Receive

SpecRedeliver == InitRedeliver /\ [][NextRedeliver]_vars

(***************************************************************************)
(* A connection whose one inbound dispatch task both calls HandlerMessage  *)
(* and hands the responses of requests to their waiters: a response gets   *)
(* to internalRedeliver only while that task is not inside HandlerMessage. *)
(***************************************************************************)
DispatchEnvironments ==
    { [kinds |-> {"handleRedeliver"}, ops |-> 1, pushes |-> MaxPush,
       connClosed |-> 0, queue |-> 1, ids |-> BrokerIds, async |-> FALSE] }

\* the dispatch task delivers the response of the REDELIVER request
dispatchResponse ==
    /\ hm.pc = "idle"
    /\ \E outcome \in RequestOutcomes : internalRedeliverNext(outcome)

InitDispatch == InitWith(DispatchEnvironments)

NextDispatch ==
    \/ newPartitionConsumer
    \/ RedeliverUnackedMessages
    \/ internalRedeliverBegin
    \/ dispatchResponse
    \/ HandlerMessage
    \/ Receive

SpecDispatch == InitDispatch /\ [][NextDispatch]_vars

(***************************************************************************)
(* Receive with a context that fires.  The select of Receive has two cases, *)
(* ctx.Done() and the receive from pc.options.MessageChannel; the second    *)
(* returns "receive queue closed" when the channel is closed, which nothing *)
(* in the two files does (there is no close of the channel), so a Receive   *)
(* on an empty queue returns when a message comes in or when ctx fires.     *)
(***************************************************************************)
ReceiveEnvironments ==
    { [kinds |-> {"handlerClose"}, ops |-> 1, pushes |-> 2, connClosed |-> 0,
       queue |-> MaxQueue, ids |-> {FirstId}, async |-> FALSE] }

\* case <-ctx.Done(): return nil, ctx.Err()
ReceiveCtxDone ==
    /\ ctor = "returned"
    /\ hist.rcvRet = "none"
    /\ hist' = [hist EXCEPT !.rcvRet = "context canceled"]
    /\ UNCHANGED <<state, cnx, options, consumerID, partitionIdx, omu, overflow,
                   unAckTracker, eventsChan, msgChan, handlerReg, nextRequestId,
                   wire, ctor, loopPc, loopCur, loopI, loopReqId, handles, hm, ra,
                   rc, tk, env, subType, position, other>>

InitReceive == InitWith(ReceiveEnvironments)

NextReceive ==
    \/ newPartitionConsumer
    \/ Close
    \/ internalClose
    \/ HandlerMessage
    \/ Receive
    \/ ReceiveCtxDone

SpecReceive == InitReceive /\ [][NextReceive]_vars

(***************************************************************************)
(* Credits.  A FLOW command grants the broker its permits; the broker      *)
(* spends one permit on each message it pushes.  SpecCredit is a run of    *)
(* ReceiveAsync, with or without Receive calls beside it, against a broker *)
(* that pushes only while it holds a permit.                               *)
(***************************************************************************)
CreditEnvironments ==
    { [kinds |-> {}, ops |-> 0, pushes |-> MaxFlowPush, connClosed |-> 0,
       queue |-> MaxQueue, ids |-> BrokerIds, async |-> TRUE] }

\* the permits of the FLOW commands sent since the last SUBSCRIBE
RECURSIVE permitsGranted(_)
permitsGranted(w) ==
    IF w = <<>> THEN 0
    ELSE LET c == w[Len(w)]
         IN  IF c.type = "SUBSCRIBE" THEN 0
             ELSE (IF c.type = "FLOW" THEN c.arg ELSE 0)
                  + permitsGranted(SubSeq(w, 1, Len(w) - 1))

\* permits the broker holds: granted and not yet spent on a push
permitsOutstanding == permitsGranted(wire) - hist.pushes

\* room in the delivery queue
freeCapacity == chanCap - Len(msgChan)

\* the broker pushes a message against a permit it holds
creditedPush ==
    \/ /\ permitsOutstanding > 0
       /\ \E newMid \in env.ids, parsed \in BOOLEAN : HandlerMessageEnqueue(newMid, parsed)
    \/ HandlerMessageOverflow

InitCredit == InitWith(CreditEnvironments)

NextCredit ==
    \/ newPartitionConsumer
    \/ creditedPush
    \/ Receive
    \/ ReceiveAsync

SpecCredit == InitCredit /\ [][NextCredit]_vars

(***************************************************************************)
(* The UnackedMessageTracker's timer.  The clock counts ticks of which     *)
(* AckTimeout is TimeoutTicks; the tracker was started at 0 and its timer  *)
(* fires every TimeoutTicks \div 2.  tk.addedAt and tk.batches are history: *)
(* when an id was added, and which ids each redelivery batch held.         *)
(***************************************************************************)
TickPeriod == TimeoutTicks \div 2

TrackerEnvironments ==
    { [kinds |-> {}, ops |-> 0, pushes |-> 0, connClosed |-> 0, queue |-> 1,
       ids |-> BrokerIds, async |-> FALSE] }

TrackerFrame == <<state, cnx, options, consumerID, partitionIdx, omu, overflow,
                  unAckTracker, eventsChan, msgChan, handlerReg, nextRequestId, wire,
                  ctor, loopPc, loopCur, loopI, loopReqId, handles, hm, hist, ra, rc,
                  env, subType, position, other>>

TimerDue == tk.now > 0 /\ tk.now % TickPeriod = 0 /\ ~tk.ticked

\* add(id): into "current", unless a bucket holds it already
tkAdd(id) ==
    /\ tk.addedAt[id] = -1
    /\ tk' = [tk EXCEPT !.current = IF id \in tk.old THEN @ ELSE @ \cup {id},
                         !.addedAt[id] = tk.now]
    /\ UNCHANGED TrackerFrame

\* remove(id): out of both buckets
tkRemove(id) ==
    /\ id \in tk.current \cup tk.old
    /\ tk' = [tk EXCEPT !.current = @ \ {id}, !.old = @ \ {id}, !.addedAt[id] = -2]
    /\ UNCHANGED TrackerFrame

\* a tick: "old" is the redelivery batch, "current" becomes "old"
tkTick ==
    /\ TimerDue
    /\ tk' = [tk EXCEPT
                 !.batches = @ \cup { [id |-> id, addedAt |-> tk.addedAt[id], at |-> tk.now]
                                        : id \in tk.old },
                 !.old = tk.current,
                 !.current = {},
                 !.ticked = TRUE]
    /\ UNCHANGED TrackerFrame

tkClock ==
    /\ tk.now < MaxTime
    /\ ~TimerDue
    /\ tk' = [tk EXCEPT !.now = @ + 1, !.ticked = FALSE]
    /\ UNCHANGED TrackerFrame

InitTracker == InitWith(TrackerEnvironments) /\ options.Type = "Shared"

NextTracker ==
    \/ \E id \in BrokerIds : tkAdd(id)
    \/ \E id \in BrokerIds : tkRemove(id)
    \/ tkTick
    \/ tkClock

SpecTracker == InitTracker /\ [][NextTracker]_vars

(***************************************************************************)
(* Properties.                                                             *)
(***************************************************************************)
Sent(type) == { i \in 1..Len(wire) : wire[i].type = type }

Calls(kind) == { k \in 1..Len(handles) : handles[k].kind = kind }

\* C1: however many Close calls are made on a Ready consumer, one after the
\* other or at once, CLOSE_CONSUMER is never sent twice, and it has been sent
\* exactly once whenever a Close call has returned or the consumer is Closed.
C1_OneCloseConsumer ==
    /\ Cardinality(Sent("CLOSE_CONSUMER")) <= 1
    /\ \A k \in Calls("handlerClose") :
          handles[k].ret # "pending" => Cardinality(Sent("CLOSE_CONSUMER")) = 1
    /\ state = consumerClosed => Cardinality(Sent("CLOSE_CONSUMER")) = 1

\* Two Close calls both passed the state check and are both on their way
\* through the event channel; the loop has handled a close and ended.
C1_Witness ==
    /\ \E j, k \in Calls("handlerClose") :
          j # k /\ handles[j].enqueued /\ handles[k].enqueued
    /\ loopPc = "done"
    /\ Cardinality(Sent("CLOSE_CONSUMER")) = 1

\* C2: every Close call returns: once the event loop has ended, no Close
\* caller is left in wg.Wait() on a handle that nobody will signal.
C2_EveryCloseReturns ==
    loopPc = "done" =>
        \A k \in Calls("handlerClose") :
            handles[k].at = "wait" => handles[k].waitGroup = 0

\* C3: a connectionClosed event taken by the event loop of a Ready consumer
\* is dispatched: when the loop is back at its select, grabCnx has run again.
C3_ConnectionClosedDispatched ==
    (loopPc = "idle" /\ state = consumerReady /\ hist.ccTaken > 0)
        => hist.grabCnxCalls > 1

\* C4: RedeliverUnackedMessages on a Ready consumer with an empty overflow
\* list sends no command, changes nothing and completes: once its handler
\* has run, the caller's wait group is signalled.
C4_EmptyRedeliverCompletes ==
    \A k \in Calls("handleRedeliver") :
        handles[k].handled => handles[k].waitGroup = 0

\* C5: the overflow list holds no message id twice (field by field).
C5_NoDuplicateOverflow ==
    \A i, j \in 1..Len(overflow) :
        i # j => ~protoEqual(overflow[i], overflow[j])

\* The same id was pushed twice while the queue was full, and is in the
\* overflow list.
C5_Witness ==
    /\ hm.pc = "idle"
    /\ hist.hmRet = "queue is full"
    /\ hist.received = 0 /\ hist.redelivers = 0
    /\ Len(hist.pushed) = chanCap + 2
    /\ hist.pushed[chanCap + 1] = hist.pushed[chanCap + 2]
    /\ Len(overflow) = 1

\* the messageId HandlerMessage gives the message of a pushed id
Delivered(newMid) ==
    newMessageId(newMid.ledgerId, newMid.entryId, partitionIdx, newMid.batchIndex)

Distinct(seq) == \A i, j \in 1..Len(seq) : i # j => seq[i] # seq[j]

\* a HandlerMessage call starts in this step / returns QueueFull in this step
HandlerCalled == hist'.pushes = hist.pushes + 1
HandlerLeavesOverflow == hm.pc = "lock" /\ hm'.pc = "idle"

\* the two outcomes of a call, as the steps of HandlerMessage show them
AcceptedOrFull ==
    /\ HandlerCalled =>
          IF Len(msgChan) < chanCap
          THEN /\ Len(hist'.pushed) = Len(hist.pushed) + 1
               /\ msgChan' = Append(msgChan, Delivered(hist'.pushed[Len(hist'.pushed)]))
               /\ hist'.hmRet = nil
               /\ overflow' = overflow
          ELSE /\ msgChan' = msgChan
               /\ hm'.pc = "lock"
    /\ HandlerLeavesOverflow =>
          /\ msgChan' = msgChan
          /\ hist'.hmRet = "queue is full"
          /\ \E k \in 1..Len(overflow') : protoEqual(overflow'[k], hm.newMid)

\* k distinct messages pushed back-to-back into the empty queue: the queue
\* holds the first min(k, c), the overflow list the ids of the others.
BackToBack ==
    (/\ hm.pc = "idle"
     /\ hist.received = 0 /\ ra.forwarded = 0 /\ ra.pc # "forward"
     /\ hist.redelivers = 0
     /\ loopPc # "redeliverWait"
     /\ Distinct(hist.pushed))
    => LET k == Len(hist.pushed)
           c == chanCap
       IN  /\ msgChan = [i \in 1..Min(k, c) |-> Delivered(hist.pushed[i])]
           /\ overflow = SubSeq(hist.pushed, c + 1, k)

\* C6, as claimed: every HandlerMessage call ends in one of two ways, the
\* message appended to a queue with a free slot and success returned, or the
\* queue full and unchanged, QueueFull returned and the id in the overflow
\* list; and k distinct pushes leave min(k, c) in the queue, the rest in
\* overflow.
C6_AcceptedOrFull_AsClaimed == []BackToBack /\ [][AcceptedOrFull]_vars

\* C6, amended: the two outcomes are those of a call whose headers and
\* payload internal.ParseMessage accepts; a call it rejects returns the parse
\* error and leaves queue and overflow list as they were.
C6_AcceptedOrFullWhenParsed ==
    /\ []BackToBack
    /\ [][IF HandlerCalled /\ hist'.hmRet = "parse message error"
           THEN msgChan' = msgChan /\ overflow' = overflow /\ hm' = hm
           ELSE AcceptedOrFull]_vars

\* Three distinct ids were pushed into a queue of capacity 1: one message is
\* queued, the two others are in the overflow list, QueueFull was returned.
C6_Witness ==
    /\ chanCap = 1
    /\ hm.pc = "idle"
    /\ hist.received = 0 /\ hist.redelivers = 0
    /\ Len(hist.pushed) = 3 /\ Distinct(hist.pushed)
    /\ Len(msgChan) = 1 /\ Len(overflow) = 2
    /\ hist.hmRet = "queue is full"

\* C7: with high = max(cap \div 2, 1), what a ReceiveAsync call has asked for
\* in FLOW commands stays within high of what it has forwarded; the first
\* FLOW asks for high, and one more FLOW follows each high messages, asking
\* for the messages forwarded since the last one.
C7_FlowAccounting ==
    LET high == Max(chanCap \div 2, 1)
        sum == IF ra.flows = <<>> THEN 0
               ELSE ra.flows[1] + (Len(ra.flows) - 1) * high
    IN  /\ ra.permits >= ra.forwarded - high
        /\ ra.permits <= ra.forwarded + high
        /\ \A i \in 1..Len(ra.flows) : ra.flows[i] = high
        /\ ra.permits = sum
        /\ ra.pc = "select" => Len(ra.flows) = 1 + ra.forwarded \div high
        /\ ra.pc = "check" => Len(ra.flows) = 1 + (ra.forwarded - 1) \div high
        /\ \A i \in 1..Len(ra.flows) :
              \E j \in Sent("FLOW") : wire[j].arg = ra.flows[i]

\* A call on a queue of capacity 4 has forwarded four messages and sent
\* FLOW(2) three times.
C7_Witness ==
    /\ chanCap = 4
    /\ ra.forwarded = 4
    /\ ra.flows = <<2, 2, 2>>
    /\ ra.pc = "select"

\* C10: a call that went through the event channel returns after its internal
\* handler has run, and returns the error the handler recorded.
C10_ReturnsHandlerError ==
    \A k \in 1..Len(handles) :
        (handles[k].enqueued /\ handles[k].ret # "pending")
            => handles[k].handled /\ handles[k].ret = handles[k].err

\* C8: an id added at t and never acked is in a redelivery batch made at some
\* time in [t + timeout, t + 2 * timeout), and in none made before.
C8_TrackerBound ==
    /\ \A b \in tk.batches :
          /\ b.at >= b.addedAt + TimeoutTicks
          /\ b.at < b.addedAt + 2 * TimeoutTicks
    /\ \A id \in BrokerIds :
          (tk.addedAt[id] >= 0 /\ tk.now >= tk.addedAt[id] + 2 * TimeoutTicks)
              => \E b \in tk.batches : b.id = id

\* C9: every SUBSCRIBE the consumer sends, at construction and on each later
\* grabCnx, carries the consumer id allocated at construction and the
\* subscription name of the options, and a request id no earlier command had.
C9_ReconnectPreservesIdentity ==
    \A i \in Sent("SUBSCRIBE") :
        /\ wire[i].consumerId = consumerID
        /\ wire[i].arg.subscription = options.SubscriptionName
        /\ \A j \in 1..(i - 1) : wire[j].requestId # wire[i].requestId

\* The consumer has subscribed a second time, successfully, after the
\* handshake of its construction.
C9_Witness ==
    /\ Cardinality(Sent("SUBSCRIBE")) >= 2
    /\ state = consumerReady
    /\ rc = "idle"
    /\ handlerReg
    /\ wire[Len(wire)].type = "FLOW"

\* C11: once the consumer is Closed, a call of AckID, AckCumulativeID, Seek,
\* Unsubscribe or RedeliverUnackedMessages is a no-op that returns: the step
\* that starts it does not leave its caller in wg.Wait() on a wait group that
\* only the event loop, which has ended, would signal.
C11_NoOpOnceClosed ==
    [][(state = consumerClosed /\ Len(handles') = Len(handles) + 1)
          => LET h == handles'[Len(handles')]
             IN  h.at = "wait" => h.waitGroup = 0]_vars

\* C12: a Receive that is called on a Closed consumer, or that is blocked on
\* the empty queue when Close completes, fails with QueueClosed ("receive
\* queue closed"): it does not stay blocked until its context fires.
C12_ReceiveSeesClose ==
    [][(state = consumerClosed /\ msgChan = <<>> /\ hist'.rcvRet # hist.rcvRet)
          => hist'.rcvRet = "receive queue closed"]_vars

\* the steps the lifecycle allows
LifecycleStep ==
    state' # state =>
        <<state, state'>> \in { <<consumerInit, consumerReady>>,
                                <<consumerReady, consumerClosing>>,
                                <<consumerClosing, consumerClosed>> }

\* C13, as claimed: the state moves Init -> Ready -> Closing -> Closed only,
\* and whenever a Close call has returned success the state is Closed.
C13_Lifecycle_AsClaimed ==
    /\ [](\A k \in Calls("handlerClose") :
             handles[k].ret = nil => state = consumerClosed)
    /\ [][LifecycleStep]_vars

\* C13, amended: the state moves Init -> Ready -> Closing -> Closed only, and
\* whenever a Close call that found the consumer Ready, and so went through
\* the event loop, has returned success, the state is Closed.  (A Close that
\* finds another state, Closing included, returns success at once.)
C13_Lifecycle ==
    /\ [](\A k \in Calls("handlerClose") :
             (handles[k].enqueued /\ handles[k].ret = nil) => state = consumerClosed)
    /\ [][LifecycleStep]_vars

\* A Close went through the loop and returned success, and a second Close,
\* called after it, returned success at the state check.
C13_Witness ==
    /\ state = consumerClosed
    /\ \E j, k \in Calls("handlerClose") :
          /\ handles[j].enqueued /\ handles[j].ret = nil
          /\ ~handles[k].enqueued /\ handles[k].ret = nil

\* C14: a message pushed with id (ledger l, entry e, batch index b) to the
\* consumer of partition p is delivered with MessageID (ledgerID l, entryID e,
\* batchIdx b, partitionIdx p), and an individual ACK carries ledger l, entry
\* e, batch index b and partition p.
C14_DeliveredIdIsBrokerId ==
    /\ \A i \in 1..Len(msgChan) :
          \E b \in BrokerIds :
              msgChan[i] = [ledgerID |-> b.ledgerId, entryID |-> b.entryId,
                            batchIdx |-> b.batchIndex, partitionIdx |-> partitionIdx]
    /\ \A j \in Sent("ACK") :
          wire[j].arg.ackType = "Individual" =>
              \E b \in BrokerIds :
                  wire[j].arg.messageId =
                      <<[ledgerId |-> b.ledgerId, entryId |-> b.entryId,
                         partition |-> partitionIdx, batchIndex |-> b.batchIndex]>>

\* an internal handler is in the middle of its work
HandlerExecuting ==
    loopPc \in {"seekWait", "ackCumulativeWait", "unsubscribeWait", "closeWait",
                "redeliverWait"}

\* C15: at most one internal handler executes at a time (while one is at
\* work no other event is taken off the event channel, and only a step of
\* the event loop marks a call as handled), and once the loop has started
\* pc.state and pc.cnx are written by steps of the event loop only.
C15_SerializedMutations ==
    [][/\ (loopPc # "notStarted" /\ (state' # state \/ cnx' # cnx)) => runEventsLoop
       /\ HandlerExecuting => Len(eventsChan') >= Len(eventsChan)
       /\ (\E k \in 1..Len(handles) : handles'[k].handled # handles[k].handled)
             => runEventsLoop]_vars

\* internalClose has moved the state to Closing and waits for its response
\* while the event of another call is on the event channel.
C15_Witness ==
    /\ loopPc = "closeWait"
    /\ state = consumerClosing
    /\ eventsChan # <<>>

\* C16: every SUBSCRIBE of the consumer carries the subscription type and the
\* initial position mapped from its own options, whatever other partition
\* consumers are constructed around it.
C16_NoCrossConsumerAliasing ==
    \A i \in Sent("SUBSCRIBE") :
        /\ wire[i].arg.subType = switchType(options.Type, setDefaultSubType)
        /\ wire[i].arg.initialPosition =
               switchInitPos(options.SubscriptionInitPos, setDefaultPosition)

\* a step that calls grabCnx and runs it up to its SUBSCRIBE request
GrabCnxCalled == hist'.grabCnxCalls = hist.grabCnxCalls + 1

\* a step in which the SUBSCRIBE request of grabCnx returns and grabCnx ends
GrabCnxResponded == hist.grabOutcome = "pending" /\ hist'.grabOutcome # "pending"

\* the types of the commands a step puts on the wire
NewTypes == [i \in 1..(Len(wire') - Len(wire)) |-> wire'[Len(wire) + i].type]

\* C17: grabCnx registers the handler and sends FLOW(ReceiverQueueSize) only
\* when the response to its SUBSCRIBE is SUCCESS, in the order SUBSCRIBE,
\* handler, FLOW; on ERROR, on another response and on a failed lookup or
\* request it returns an error, registers nothing and sends no FLOW; and
\* the construction goes to Ready and starts the loop only when grabCnx
\* returned no error.  Step by step: up to its request grabCnx sends
\* SUBSCRIBE, or nothing when the lookup fails, and registers nothing; from
\* the response on it registers the handler and sends FLOW on SUCCESS only;
\* no other step registers the handler or sends FLOW.
C17_HandshakeOrdering ==
    [][LET o == hist'.grabOutcome
           added == hist'.handlerAdds - hist.handlerAdds
           inCtor == ctor \in {"running", "subscribeWait"}
           failed == IF inCtor THEN ctor' = "failed" ELSE rc' = "running"
           ended == IF inCtor THEN ctor' \in {"failed", "returned"}
                    ELSE rc' \in {"running", "idle"}
       IN  /\ GrabCnxCalled =>
                 /\ added = 0 /\ handlerReg' = handlerReg
                 /\ IF o = "lookupErr"
                    THEN NewTypes = <<>> /\ failed
                    ELSE o = "pending" /\ NewTypes = <<"SUBSCRIBE">> /\ ~ended
           /\ GrabCnxResponded =>
                 /\ Sent("SUBSCRIBE") # {}
                 /\ added = IF o \in {"ok", "flowErr"} THEN 1 ELSE 0
                 /\ o = "ok" =>
                       /\ NewTypes = <<"FLOW">>
                       /\ wire'[Len(wire')].arg = options.ReceiverQueueSize
                       /\ handlerReg' /\ ~failed
                 /\ o = "flowErr" =>
                       NewTypes = <<>> /\ handlerReg' /\ failed
                 /\ o \in {"requestErr", "ERROR", "other"} =>
                       NewTypes = <<>> /\ handlerReg' = handlerReg /\ failed
                 /\ ended
           /\ (GrabCnxCalled \/ GrabCnxResponded) /\ inCtor =>
                 IF ctor' = "returned"
                 THEN o = "ok" /\ state' = consumerReady /\ loopPc' = "idle"
                 ELSE state' = consumerInit /\ loopPc' = "notStarted"
           /\ ~GrabCnxResponded =>
                 /\ added = 0
                 /\ (handlerReg' => handlerReg)
                 /\ \A i \in 1..Len(NewTypes) : NewTypes[i] # "FLOW"]_vars

\* The handshake of the construction has succeeded: SUBSCRIBE and FLOW are on
\* the wire in that order, the handler is registered, the consumer is Ready
\* and its loop has started.
C17_Witness ==
    /\ hist.grabCnxCalls = 1 /\ hist.grabOutcome = "ok" /\ hist.handlerAdds = 1
    /\ Len(wire) = 2 /\ wire[1].type = "SUBSCRIBE" /\ wire[2].type = "FLOW"
    /\ handlerReg /\ state = consumerReady /\ loopPc = "idle"

\* C18: the tracker is started only for Type Shared or KeyShared with
\* AckTimeout > 0 and only once the subscribe handshake has succeeded: a
\* construction that has failed leaves no started tracker behind, and an
\* Exclusive or Failover consumer has no tracker at all.
C18_TrackerStartedAfterHandshake ==
    /\ unAckTracker.running =>
          options.Type \in {"Shared", "KeyShared"} /\ options.AckTimeout > 0
    /\ ctor = "failed" => ~unAckTracker.running
    /\ options.Type \in {"Exclusive", "Failover"} =>
          ~unAckTracker.present /\ unAckTracker.ids = {}

\* the step in which internalRedeliver finishes a flush
RedeliverEnds == hist'.redelivers = hist.redelivers + 1

\* the REDELIVER commands of the call that internalRedeliver is working on
OfThisCall(c) ==
    c.type = "REDELIVER_UNACKNOWLEDGED_MESSAGES" /\ c.requestId = loopReqId

RECURSIVE Flatten(_)
Flatten(cmds) == IF cmds = <<>> THEN <<>> ELSE Head(cmds).arg \o Flatten(Tail(cmds))

IsPrefix(a, b) == Len(a) <= Len(b) /\ SubSeq(b, 1, Len(a)) = a

\* C19: a flush of an overflow list of n ids sends ceil(n / 1000) REDELIVER
\* commands of at most 1000 ids each, which put end to end are the list as it
\* was when the handler started, every id once; at its end the list is empty,
\* the tracker cleared and the caller signalled; and ids that the message
\* handler pushes meanwhile are kept: the list changes only by growing at its
\* end, not at all while a flush is under way, and is emptied only by a flush
\* that has sent all of it.
C19_RedeliverChunks ==
    [][/\ RedeliverEnds =>
            LET cmds == SelectSeq(wire, OfThisCall)
                n == Len(overflow)
            IN  /\ n > 0
                /\ Len(cmds) = (n + maxRedeliverUnacknowledged - 1)
                                  \div maxRedeliverUnacknowledged
                /\ \A k \in 1..Len(cmds) :
                      Len(cmds[k].arg) \in 1..maxRedeliverUnacknowledged
                /\ Flatten(cmds) = overflow
                /\ Cardinality({ overflow[k] : k \in 1..n }) = n
                /\ wire' = wire
                /\ overflow' = <<>>
                /\ unAckTracker'.ids = {}
                /\ handles'[loopCur].waitGroup = 0
       /\ ~RedeliverEnds => IsPrefix(overflow, overflow')
       /\ (loopPc = "redeliverWait" /\ ~RedeliverEnds) => overflow' = overflow]_vars

\* A list of 2001 ids has been flushed in three commands of 1000, 1000 and 1
\* ids, the caller has returned, and an id pushed while the flush was under
\* way is in the list now.
C19_Witness ==
    /\ hist.redelivers = 1
    /\ Len(wire) = 5
    /\ \A j \in 3..5 : wire[j].type = "REDELIVER_UNACKNOWLEDGED_MESSAGES"
    /\ Len(wire[3].arg) = maxRedeliverUnacknowledged
    /\ Len(wire[4].arg) = maxRedeliverUnacknowledged
    /\ Len(wire[5].arg) = 1
    /\ \E k \in Calls("handleRedeliver") : handles[k].ret # "pending"
    /\ Len(overflow) = 1

\* C20: a flush under way and a push to a full queue do not block each
\* other: the event loop is never waiting for the response of a REDELIVER
\* request, holding pc.omu, while the dispatch task is inside HandlerMessage
\* waiting for pc.omu.
C20_NoRedeliverDispatchDeadlock ==
    ~(loopPc = "redeliverWait" /\ omu = "loop" /\ hm.pc = "lock")

\* C21: the permits the broker holds (granted by the FLOW of grabCnx and the
\* FLOWs of ReceiveAsync, less the messages pushed) never exceed the room
\* left in the delivery queue, and so HandlerMessage never finds the queue
\* full when the broker pushes only against permits.
C21_CreditsWithinQueueRoom ==
    /\ permitsOutstanding <= freeCapacity
    /\ hist.hmRet # "queue is full"

\* the permits of all the FLOW commands sent
RECURSIVE permitsSent(_)
permitsSent(w) ==
    IF w = <<>> THEN 0
    ELSE (IF Head(w).type = "FLOW" THEN Head(w).arg ELSE 0) + permitsSent(Tail(w))

ReceiveReturns == hist'.received = hist.received + 1

\* C22: a Receive call sends no command; with no ReceiveAsync running, the
\* only step that grants permits is the end of a grabCnx whose handshake
\* succeeded, and it grants ReceiverQueueSize of them: every FLOW sent
\* carries ReceiverQueueSize, there are as many of them as handshakes that
\* succeeded, and no Receive call adds to them.
C22_ReceiveGrantsNoCredit ==
    [][ /\ ReceiveReturns => (wire' = wire /\ nextRequestId' = nextRequestId)
        /\ permitsSent(wire') - permitsSent(wire) =
               IF GrabCnxResponded /\ hist'.grabOutcome = "ok" THEN chanCap ELSE 0
        /\ \A i \in 1..Len(wire') :
               wire'[i].type = "FLOW" => wire'[i].arg = chanCap ]_vars

\* Two handshakes have granted one permit each, the broker has pushed two
\* messages and two Receive calls have taken them: the queue is empty and
\* the broker holds no permit.
C22_Witness ==
    /\ chanCap = 1
    /\ hist.handlerAdds = 2
    /\ permitsSent(wire) = 2
    /\ hist.pushes = 2 /\ hist.hmRet = nil
    /\ hist.received = 2
    /\ msgChan = <<>>
    /\ permitsGranted(wire) = chanCap

====
